---- MODULE Spec2Model ----
(***************************************************************************)
(* Model of the NuvlaBox Modbus peripheral manager (src/code/modbus.py):   *)
(* the discovery loop of __main__, parse_modbus_peripherals and            *)
(* manage_modbus_peripherals, with the peripherals directory and the Nuvla *)
(* registry as the environment they act on.                                *)
(***************************************************************************)
EXTENDS Integers, Sequences, FiniteSets, TLC

\* Number of resource ids the registry hands out in one exploration.
MaxRid == 2

VARIABLES
    pc,                 \* position of the main thread in the loop of __main__
    doc,                \* the document read from the scanner's XML file
    peripherals,        \* all_modbus_devices, the list returned by the parser
    files,              \* the modbus.* files of the peripherals directory
    registry,           \* the nuvlabox-peripheral resources that exist in Nuvla
    issued,             \* how many resource ids the registry has handed out
    local_modbus_files, \* the list glob returned, as the create loop edits it
    i,                  \* index of the create loop in peripherals
    todo,               \* entries the delete loop has not reached yet
    listed,             \* the files that existed at the listing, and whether glob saw them
    posts,              \* _cimi_post calls of this cycle with the file name of each, in order
    deleteCalls,        \* _cimi_delete calls of this cycle, in order
    answers,            \* the resource id and the outcome of each of these calls
    puts,               \* _cimi_put calls of this cycle, in order
    failures,           \* kinds of operations that failed in this cycle
    event,              \* whether the Event e is set
    fixed,              \* <<d>> once every scan returns d and nothing fails
    pending             \* the files whose delete pass failed in the cycle before this
                        \* one, until the delete loop of this cycle starts

vars == <<pc, doc, peripherals, files, registry, issued, local_modbus_files, i,
          todo, listed, posts, deleteCalls, answers, puts, failures, event, fixed,
          pending>>

-----------------------------------------------------------------------------
(* The scanner document, as xmltodict delivers it: a child element that      *)
(* occurs once is one object, a child that occurs several times is a list.   *)

One(x) == [list |-> FALSE, items |-> <<x>>]
Many(s) == [list |-> TRUE, items |-> s]
Absent == [list |-> FALSE, items |-> <<>>]

SlaveIdData == [key |-> "Slave ID data", text |-> "PM710PowerMeter"]
DeviceIdent == [key |-> "Device identification", text |-> "Schneider Electric PM710 v03.110"]
ErrorElem == [key |-> "error", text |-> "GATEWAY TARGET DEVICE FAILED TO RESPONSE"]

\* The attributes of a slave the scan script identified.
Identified == Many(<<SlaveIdData, DeviceIdent>>)

ElemNodes ==
    { Identified,
      Many(<<SlaveIdData, ErrorElem>>),
      Many(<<DeviceIdent, DeviceIdent>>),
      One(SlaveIdData) }

\* A table of key "sid 0x.." with the hex digits hex.
Table(hex, elem) == [label |-> "sid", hex |-> hex, elem |-> elem]

\* The slaves "sid 0x64" and "sid 0x96" of the example in the docstring.
Slave64 == Table(<<6, 4>>, Identified)
Slave96 == Table(<<9, 6>>, Identified)

Tables == { Table(<<6, 4>>, e) : e \in ElemNodes } \cup { Slave96 }

TableNodes ==
    { One(t) : t \in Tables }
    \cup { Many(<<t, u>>) : t \in {Slave64, Slave96}, u \in {Slave64, Slave96} }
    \cup { Many(<<Slave96, t>>) : t \in Tables \ {Slave64, Slave96} }

ModbusPort(tn) ==
    [service |-> <<"modbus">>, protocol |-> <<"tcp">>, portid |-> <<5, 0, 2>>,
     state |-> "open", script |-> tn]

\* A modbus port reported without protocol and portid attributes.
BarePort ==
    [service |-> <<"modbus">>, protocol |-> <<>>, portid |-> <<>>, state |-> "closed",
     script |-> One(Slave64)]

HttpPort ==
    [service |-> <<"http">>, protocol |-> <<"tcp">>, portid |-> <<8, 0>>,
     state |-> "open", script |-> Absent]

NoServicePort ==
    [service |-> <<>>, protocol |-> <<"tcp">>, portid |-> <<2, 2>>,
     state |-> "open", script |-> Absent]

Ports ==
    { ModbusPort(tn) : tn \in TableNodes }
    \cup { ModbusPort(Absent), BarePort, HttpPort, NoServicePort }

PortNodes ==
    { One(ModbusPort(One(Slave64))), One(NoServicePort) }
    \cup { Many(<<p, HttpPort>>) : p \in Ports }
    \cup { Many(<<ModbusPort(One(Slave96)), BarePort>>) }

NoDoc == [kind |-> "none", ports |-> Absent]

Docs ==
    { [kind |-> "malformed", ports |-> Absent],
      [kind |-> "noports", ports |-> Absent],
      [kind |-> "manyhosts", ports |-> Absent] }
    \cup { [kind |-> "ports", ports |-> pn] : pn \in PortNodes }

-----------------------------------------------------------------------------
(* parse_modbus_peripherals *)

RECURSIVE HexValue(_)
\* int(s, 16) on the hex digits of s
HexValue(ds) ==
    IF ds = <<>> THEN 0 ELSE HexValue(SubSeq(ds, 1, Len(ds) - 1)) * 16 + ds[Len(ds)]

RECURSIVE DecValue(_)
\* int(s) on the decimal digits of s
DecValue(ds) ==
    IF ds = <<>> THEN 0 ELSE DecValue(SubSeq(ds, 1, Len(ds) - 1)) * 10 + ds[Len(ds)]

\* str.upper() on the protocol names nmap reports
Upper(s) == CASE s = "tcp" -> "TCP" [] s = "udp" -> "UDP" [] OTHER -> s

\* str.format of an optional value: None prints as "None"
FormatOpt(o, asText) == IF o = <<>> THEN "None" ELSE asText

RECURSIVE Join(_)
\* ' '.join(classes)
Join(ss) ==
    IF ss = <<>> THEN ""
    ELSE IF Len(ss) = 1 THEN ss[1]
    ELSE ss[1] \o " " \o Join(Tail(ss))

\* The keys of a port dict in document order: attributes, then child elements.
PortKeys(port) ==
    (IF port.protocol = <<>> THEN <<>> ELSE <<"@protocol">>)
    \o (IF port.portid = <<>> THEN <<>> ELSE <<"@portid">>)
    \o <<"state">>
    \o (IF port.service = <<>> THEN <<>> ELSE <<"service">>)
    \o (IF port.script = Absent THEN <<>> ELSE <<"script">>)

RECURSIVE ScanElems(_, _)
\* The loop over elements_list (lines 169-176) from the state acc =
\* [classes, vendor, raised]; optional values are <<>> (None) or <<v>>.
ScanElems(elems, acc) ==
    IF elems = <<>> \/ acc.raised THEN acc
    ELSE LET elem == Head(elems) IN
         IF elem.key = "Slave ID data"
         THEN ScanElems(Tail(elems), [acc EXCEPT !.classes = << <<elem.text>> >>])
         ELSE IF elem.key = "Device identification"
         THEN ScanElems(Tail(elems), [acc EXCEPT !.vendor = <<elem.text>>])
         \* logging.warning(...) returns None, and None has no format
         ELSE [acc EXCEPT !.raised = TRUE]

\* A dict without the entries whose value is None (line 186).
DropNone(m) == [k \in { k \in DOMAIN m : m[k] # <<>> } |-> m[k][1]]

\* One pass of the loop over the slave tables (lines 165-189) for one table:
\* the device it appends, or raised.
ParseTable(port, address) ==
    LET slave_id == HexValue(address.hex)
        start == [classes |-> <<>>, vendor |-> <<>>, raised |-> FALSE]
        \* address['elem'] raises when there is none; iterating the dict of a
        \* single elem yields its keys, and a str has no item '@key'
        scanned == IF address.elem.list
                   THEN ScanElems(address.elem.items, start)
                   ELSE [start EXCEPT !.raised = TRUE]
        portText == FormatOpt(port.portid, ToString(DecValue(port.portid)))
        protoText == FormatOpt(port.protocol, port.protocol[1])
        modbus_device_merge ==
            [interface |-> IF port.protocol = <<>> THEN <<>> ELSE <<Upper(port.protocol[1])>>,
             port |-> IF port.portid = <<>> THEN <<>> ELSE <<DecValue(port.portid)>>,
             available |-> <<port.state = "open">>,
             classes |-> scanned.classes,
             identifier |-> <<ToString(slave_id)>>,
             vendor |-> scanned.vendor,
             name |-> <<"Modbus " \o portText \o "/" \o protoText \o " "
                        \o Join(scanned.classes[1]) \o " - " \o ToString(slave_id)>>]
    IN IF scanned.raised \/ scanned.classes = <<>>   \* ' '.join(None) raises
       THEN [raised |-> TRUE, device |-> <<>>]
       ELSE [raised |-> FALSE, device |-> <<DropNone(modbus_device_merge)>>]

RECURSIVE ParseTables(_, _, _)
\* The loop "for address in output" (line 164), from the list modbus built so far.
ParseTables(port, output, modbus) ==
    IF output = <<>> THEN [raised |-> FALSE, modbus |-> modbus]
    ELSE LET r == ParseTable(port, Head(output)) IN
         IF r.raised THEN [raised |-> TRUE, modbus |-> modbus]
         ELSE ParseTables(port, Tail(output), modbus \o r.device)

RECURSIVE ParsePorts(_, _)
\* The loop "for port in all_ports" (line 150) over a list of port dicts.
ParsePorts(all_ports, modbus) ==
    IF all_ports = <<>> THEN [raised |-> FALSE, modbus |-> modbus]
    ELSE LET port == Head(all_ports) IN
         IF port.service = <<>> \/ port.service[1] # "modbus"
         THEN ParsePorts(Tail(all_ports), modbus)
         ELSE IF port.script = Absent    \* port['script'] raises KeyError
         THEN [raised |-> TRUE, modbus |-> modbus]
         ELSE LET r == ParseTables(port, port.script.items, modbus) IN
              IF r.raised THEN r ELSE ParsePorts(Tail(all_ports), r.modbus)

\* The same loop when all_ports is the dict of a single port: it yields the
\* dict's keys; the key "service" passes the test of line 151 and is then
\* indexed with a str, which raises; every other key is skipped.
ParsePortKeys(port) ==
    [raised |-> \E n \in 1..Len(PortKeys(port)) : PortKeys(port)[n] = "service",
     modbus |-> <<>>]

\* parse_modbus_peripherals: the list it returns, or raised when an
\* exception leaves it.
parse_modbus_peripherals(namp_xml_output) ==
    CASE namp_xml_output.kind = "malformed" -> [raised |-> TRUE, modbus |-> <<>>]
      [] namp_xml_output.kind = "ports" ->
            IF namp_xml_output.ports.list
            THEN ParsePorts(namp_xml_output.ports.items, <<>>)
            ELSE ParsePortKeys(namp_xml_output.ports.items[1])
      [] OTHER -> [raised |-> FALSE, modbus |-> <<>>]

-----------------------------------------------------------------------------
(* manage_modbus_peripherals: names and payloads *)

\* The name built from per.get without the defaults: None prints as "None".
full_filename_no_default(per) ==
    "modbus."
    \o (IF "port" \in DOMAIN per THEN ToString(per.port) ELSE "None") \o "."
    \o (IF "interface" \in DOMAIN per THEN per.interface ELSE "None") \o "."
    \o per.identifier

\* filename_termination prefixed with "modbus." (lines 236-245); the
\* directory part of the path is the same for every file and left out.
full_filename(per) ==
    "modbus."
    \o (IF "port" \in DOMAIN per THEN ToString(per.port) ELSE "nullport") \o "."
    \o (IF "interface" \in DOMAIN per THEN per.interface ELSE "nullinterface") \o "."
    \o per.identifier

\* payload = {**per, "parent": nb_id, "version": nb_version}
Payload(per) == ("parent" :> "nuvlabox/1") @@ ("version" :> "v2") @@ per

RemoveFile(f, name) == [k \in DOMAIN f \ {name} |-> f[k]]

WriteFile(f, name, content) == (name :> content) @@ f

-----------------------------------------------------------------------------
\* The registry entry with resource id rid, if it exists.
Live(rid) == { e \in registry : e.id = rid }

\* What a _cimi_post that the registry accepts leaves in the registry.
Created(reg, rid, payload) == reg \cup { [id |-> rid, payload |-> payload] }

\* What a _cimi_put of {"available": False} leaves in the registry.
Edited(reg, rid) ==
    { IF e.id = rid THEN [e EXCEPT !.payload = ("available" :> FALSE) @@ e.payload] ELSE e
      : e \in reg }

\* Outcomes of the try block of lines 253-262 for a peripheral without a file.
CreateOutcomes == { "created", "post_error", "no_resource_id", "open_error", "write_error" }

\* Outcomes of one pass of the delete loop (lines 264-303).
DeleteOutcomes ==
    { "read_error", "deleted", "deleted_remove_error", "not_found",
      "not_found_remove_error", "conn_error", "nuvla_error",
      "other_error_put_ok", "other_error_put_error" }

-----------------------------------------------------------------------------
Init ==
    /\ pc = "scan"
    /\ doc = NoDoc
    /\ peripherals = <<>>
    /\ files = << >>
    /\ registry = {}
    /\ issued = 0
    /\ local_modbus_files = {}
    /\ i = 1
    /\ todo = {}
    /\ listed = [ok |-> TRUE, names |-> {}]
    /\ posts = <<>>
    /\ deleteCalls = <<>>
    /\ answers = <<>>
    /\ puts = <<>>
    /\ failures = {}
    /\ event = FALSE
    /\ fixed = <<>>
    /\ pending = {}

\* scan_open_ports and the read of its XML file (lines 349-351), when the
\* scanner can report the documents of D.
ScanFrom(D) ==
    /\ pc = "scan"
    /\ \E d \in D : doc' = d
    /\ pc' = "parse"
    /\ UNCHANGED <<peripherals, files, registry, issued, local_modbus_files, i, todo,
                   listed, posts, deleteCalls, answers, puts, failures, event, fixed, pending>>

Scan == ScanFrom(Docs)

\* open(xml_file) raises when the scanner wrote no file (line 350).
ScanFail ==
    /\ pc = "scan"
    /\ pc' = "crashed"
    /\ UNCHANGED <<doc, peripherals, files, registry, issued, local_modbus_files, i, todo,
                   listed, posts, deleteCalls, answers, puts, failures, event, fixed, pending>>

\* Line 353: an exception that leaves the parser leaves the loop as well.
Parse ==
    /\ pc = "parse"
    /\ LET r == parse_modbus_peripherals(doc) IN
       /\ pc' = IF r.raised THEN "crashed" ELSE "list"
       /\ peripherals' = IF r.raised THEN peripherals ELSE r.modbus
    /\ UNCHANGED <<doc, files, registry, issued, local_modbus_files, i, todo,
                   listed, posts, deleteCalls, answers, puts, failures, event, fixed, pending>>

\* What glob.glob(modbus_files_basepath + '*') returns (line 237): the
\* names of the files, or [] when the directory cannot be listed (glob
\* swallows the OSError).
Glob(f, ok) == IF ok THEN DOMAIN f ELSE {}

\* Lines 236-237, when the listing can end as OK says.
ListWith(OK) ==
    /\ pc = "list"
    /\ \E ok \in OK :
          /\ listed' = [ok |-> ok, names |-> DOMAIN files]
          /\ local_modbus_files' = Glob(files, ok)
          /\ failures' = IF ok THEN {} ELSE {"list"}
    /\ pc' = "creates"
    /\ UNCHANGED <<doc, peripherals, files, registry, issued, i, todo, posts, deleteCalls,
                   answers, puts, event, fixed, pending>>

List == ListWith(BOOLEAN)

\* A loop that forgets to take the matched file off the list.
RemovedNothing(names, name) == names

\* The list after local_modbus_files.remove(full_filename) (line 248).
Removed(names, name) == names \ {name}

\* Lines 246-248: the file of the peripheral is in the list.
Matched ==
    /\ pc = "creates"
    /\ i <= Len(peripherals)
    /\ full_filename(peripherals[i]) \in local_modbus_files
    /\ local_modbus_files' = Removed(local_modbus_files, full_filename(peripherals[i]))
    /\ i' = i + 1
    /\ UNCHANGED <<pc, doc, peripherals, files, registry, issued, todo, listed, posts,
                   deleteCalls, answers, puts, failures, event, fixed, pending>>

\* Lines 249-262: the file is not in the list; post, then write the file.
\* O is the set of outcomes the try block can have.
CreateWith(O) ==
    /\ pc = "creates"
    /\ i <= Len(peripherals)
    /\ full_filename(peripherals[i]) \notin local_modbus_files
    /\ LET per == peripherals[i]
           name == full_filename(per)
           payload == Payload(per)
           rid == issued + 1
       IN \E outcome \in O :
            /\ outcome \in {"created", "open_error", "write_error"} => issued < MaxRid
            /\ posts' = Append(posts, [name |-> name, payload |-> payload])
            /\ IF outcome \in {"post_error", "no_resource_id"}
               THEN UNCHANGED <<registry, issued, files>>
               ELSE /\ registry' = Created(registry, rid, payload)
                    /\ issued' = rid
                    /\ files' = CASE outcome = "created" ->
                                       WriteFile(files, name, [ok |-> TRUE, id |-> rid])
                                  [] outcome = "write_error" ->
                                       WriteFile(files, name, [ok |-> FALSE, id |-> 0])
                                  [] OTHER -> files
            /\ failures' = IF outcome = "created" THEN failures ELSE failures \cup {"create"}
    /\ i' = i + 1
    /\ UNCHANGED <<pc, doc, peripherals, local_modbus_files, todo, listed, deleteCalls,
                   answers, puts, event, fixed, pending>>

Create == CreateWith(CreateOutcomes)

\* A create loop that leaves the last peripheral out.
CreatesDoneEarly(idx, modbus) == idx >= Len(modbus)

\* The for loop of line 239 has gone through all_modbus_devices.
CreatesDone(idx, modbus) == idx > Len(modbus)

\* The create loop is over; the delete loop starts on the leftover files
\* (line 264).
EnterDeletes ==
    /\ pc = "creates"
    /\ CreatesDone(i, peripherals)
    /\ pc' = "deletes"
    /\ todo' = local_modbus_files
    /\ pending' = {}
    /\ UNCHANGED <<doc, peripherals, files, registry, issued, local_modbus_files, i, listed,
                   posts, deleteCalls, answers, puts, failures, event, fixed>>

\* Where the delete loop goes after one pass: return on a connection error
\* (line 282), the next pass otherwise.
AfterDelete(outcome) == IF outcome = "conn_error" THEN "wait" ELSE "deletes"

\* A delete loop that does not take 404 for a success.
ReachesRemoveNot404(outcome) == outcome \in {"deleted", "deleted_remove_error"}

\* The passes that reach os.remove (line 299): _cimi_delete returned, or
\* raised NuvlaError with status 404 (lines 283-285); every other handler
\* ends in continue or return.
ReachesRemove(outcome) ==
    outcome \in {"deleted", "deleted_remove_error", "not_found", "not_found_remove_error"}

\* A delete loop that removes the file whatever _cimi_delete answered.
RemovesRecordAlways(outcome) ==
    outcome \notin {"read_error", "deleted_remove_error", "not_found_remove_error"}

\* The passes in which the file is gone afterwards: os.remove was reached
\* and did not raise (lines 298-303).
RemovesRecord(outcome) ==
    ReachesRemove(outcome)
    /\ outcome \notin {"deleted_remove_error", "not_found_remove_error"}

\* A delete loop that marks the entry unavailable after a registry error too.
CallsPutOnNuvlaError(outcome) ==
    outcome \in {"other_error_put_ok", "other_error_put_error", "nuvla_error"}

\* The passes that call _cimi_put (line 293): _cimi_delete raised something
\* that is neither ConnectionError nor NuvlaError (line 289).
CallsPut(outcome) == outcome \in {"other_error_put_ok", "other_error_put_error"}

\* One pass of the delete loop (lines 264-303) on old_modbus_file, with an
\* outcome of O.  The order of the list is the order glob returned, which
\* is any order.
DeleteWith(O) ==
    /\ pc = "deletes"
    /\ \E old_modbus_file \in todo, outcome \in O :
         LET record == files[old_modbus_file]
             rid == record.id
         IN /\ outcome # "read_error" => record.ok
            /\ outcome \in {"deleted", "deleted_remove_error", "other_error_put_ok"}
                  => Live(rid) # {}
            /\ outcome \in {"not_found", "not_found_remove_error"} => Live(rid) = {}
            /\ todo' = todo \ {old_modbus_file}
            /\ deleteCalls' = IF outcome = "read_error" THEN deleteCalls
                              ELSE Append(deleteCalls, old_modbus_file)
            /\ answers' = IF outcome = "read_error" THEN answers
                          ELSE Append(answers, [id |-> rid, outcome |-> outcome])
            /\ puts' = IF CallsPut(outcome) THEN Append(puts, old_modbus_file) ELSE puts
            /\ registry' = CASE outcome \in {"deleted", "deleted_remove_error"} ->
                                   registry \ Live(rid)
                             [] outcome = "other_error_put_ok" -> Edited(registry, rid)
                             [] OTHER -> registry
            /\ files' = IF RemovesRecord(outcome)
                        THEN RemoveFile(files, old_modbus_file) ELSE files
            /\ failures' = IF outcome \in {"deleted", "not_found"}
                           THEN failures ELSE failures \cup {"delete"}
            /\ pc' = AfterDelete(outcome)
    /\ UNCHANGED <<doc, peripherals, issued, local_modbus_files, i, listed, posts,
                   event, fixed, pending>>

Delete == DeleteWith(DeleteOutcomes)

\* The delete loop is over and manage_modbus_peripherals returns.
FinishDeletes ==
    /\ pc = "deletes"
    /\ todo = {}
    /\ pc' = "wait"
    /\ UNCHANGED <<doc, peripherals, files, registry, issued, local_modbus_files, i, todo,
                   listed, posts, deleteCalls, answers, puts, failures, event, fixed, pending>>

\* The files the delete loop of this cycle has visited (lines 264-303).
Visited == IF pc \in {"deletes", "wait"} THEN local_modbus_files \ todo ELSE {}

\* The visited files whose pass ended before os.remove was reached: the
\* record could not be read (lines 269-276) or _cimi_delete failed with
\* something other than 404 (lines 280-296).
FailedDeletes ==
    { name \in Visited :
        \A n \in 1..Len(deleteCalls) :
           deleteCalls[n] = name => ~ReachesRemove(answers[n].outcome) }

\* e.wait(timeout=90) returns at once when e is set and at the timeout
\* otherwise; its result is not read and the while True loop goes on (line
\* 348).  What the finished cycle left behind is dropped here.
Wait ==
    /\ pc = "wait"
    /\ pc' = "scan"
    /\ doc' = NoDoc
    /\ peripherals' = <<>>
    /\ local_modbus_files' = {}
    /\ i' = 1
    /\ todo' = {}
    /\ listed' = [ok |-> TRUE, names |-> {}]
    /\ posts' = <<>>
    /\ deleteCalls' = <<>>
    /\ answers' = <<>>
    /\ puts' = <<>>
    /\ failures' = {}
    /\ pending' = FailedDeletes
    /\ UNCHANGED <<files, registry, issued, event, fixed>>

\* e.set(): the cancellation or early-wake signal.  No code of the module
\* calls it; it is the signal the environment would send.
SetEvent ==
    /\ ~event
    /\ pc # "crashed"
    /\ event' = TRUE
    /\ UNCHANGED <<pc, doc, peripherals, files, registry, issued, local_modbus_files, i,
                   todo, listed, posts, deleteCalls, answers, puts, failures, fixed, pending>>

Next ==
    \/ Scan
    \/ ScanFail
    \/ Parse
    \/ List
    \/ Matched
    \/ Create
    \/ EnterDeletes
    \/ Delete
    \/ FinishDeletes
    \/ Wait
    \/ SetEvent

Spec == Init /\ [][Next]_vars

-----------------------------------------------------------------------------
(* The loop when the environment settles: from some cycle on the scanner    *)
(* reports one and the same document and no call or file operation fails.   *)

\* The names of the files of the peripherals of a list.
Keys(modbus) == { full_filename(modbus[n]) : n \in 1..Len(modbus) }

\* The environment settles on a document the parser accepts and that names
\* each slave once, while the registry still has an id for every peripheral
\* of it and every local file is readable.
Settle ==
    /\ pc = "scan"
    /\ fixed = <<>>
    /\ \A name \in DOMAIN files : files[name].ok
    /\ \E d \in Docs :
         LET r == parse_modbus_peripherals(d) IN
         /\ ~r.raised
         /\ Cardinality(Keys(r.modbus)) = Len(r.modbus)
         /\ issued + Len(r.modbus) <= MaxRid
         /\ fixed' = <<d>>
    /\ UNCHANGED <<pc, doc, peripherals, files, registry, issued, local_modbus_files, i,
                   todo, listed, posts, deleteCalls, answers, puts, failures, event, pending>>

SettledStep ==
    /\ fixed # <<>>
    /\ \/ ScanFrom({fixed[1]})
       \/ Parse
       \/ ListWith({TRUE})
       \/ Matched
       \/ CreateWith({"created"})
       \/ EnterDeletes
       \/ DeleteWith({"deleted", "not_found"})
       \/ FinishDeletes
       \/ Wait
       \/ SetEvent

ConvNext ==
    \/ fixed = <<>> /\ Next
    \/ Settle
    \/ SettledStep

\* The main thread always takes its next step: no call of the loop blocks
\* for ever, and e.wait returns after its timeout at the latest.
ConvSpec == Init /\ [][ConvNext]_vars /\ WF_vars(ConvNext)

-----------------------------------------------------------------------------
(* Properties *)

\* The file names of the peripherals observed in this cycle.
ObservedKeys == Keys(peripherals)

\* The main thread is inside manage_modbus_peripherals or has just left it.
InCycle == pc \in {"creates", "deletes", "wait"}

\* Number of _cimi_post calls of this cycle for the peripheral of a file name.
PostCount(name) == Cardinality({ n \in 1..Len(posts) : posts[n].name = name })

\* Number of _cimi_delete calls of this cycle for the record of a file name.
DeleteCount(name) == Cardinality({ n \in 1..Len(deleteCalls) : deleteCalls[n] = name })

\* The recorded names that no observed peripheral maps to.
Stale == listed.names \ ObservedKeys

\* C1: when the recorded names are exactly the names of the observed
\* peripherals (and the listing returned them), a run of
\* manage_modbus_peripherals posts nothing and deletes nothing, in every cycle.
C1_SteadyStateNoOp ==
    (InCycle /\ listed.ok /\ listed.names = ObservedKeys)
        => (posts = <<>> /\ deleteCalls = <<>>)

\* C2: once the create loop of a cycle is over, every observed name that
\* was not recorded at the start of the cycle has been posted exactly once
\* and no recorded name has been posted, also when the list names a slave
\* several times.
C2_CreatesFollowDiff ==
    (pc \in {"deletes", "wait"} /\ listed.ok)
        => \A name \in ObservedKeys \cup listed.names :
              PostCount(name) = IF name \in ObservedKeys \ listed.names THEN 1 ELSE 0

\* C3: in a cycle in which no operation has failed, every delete call is for
\* a recorded name that no observed peripheral maps to, no name is deleted
\* twice, and when the cycle is over every such name has had its delete call.
C3_DeletesFollowDiff ==
    /\ (InCycle /\ failures = {})
          => \A n \in 1..Len(deleteCalls) :
                deleteCalls[n] \in Stale /\ DeleteCount(deleteCalls[n]) = 1
    /\ (pc = "wait" /\ failures = {})
          => { deleteCalls[n] : n \in 1..Len(deleteCalls) } = Stale

\* A cycle without failure is over that kept a recorded peripheral, posted
\* nothing and deleted a recorded name that is not observed any more.
C3_Witness ==
    /\ pc = "wait"
    /\ failures = {}
    /\ posts = <<>>
    /\ deleteCalls # <<>>
    /\ ObservedKeys \cap listed.names # {}

\* C4: in a cycle whose listing of the recorded files failed, nothing is
\* posted and nothing is deleted.
C4_FetchFailureSafety ==
    (InCycle /\ ~listed.ok) => (posts = <<>> /\ deleteCalls = <<>>)

\* C5: when a cycle in which a create failed is over, the create loop has
\* gone through every peripheral and the delete loop has reached every
\* leftover file.
C5_CreateFailureIsolation ==
    (pc = "wait" /\ "create" \in failures) => (i > Len(peripherals) /\ todo = {})

\* C6: when a cycle in which the delete of a leftover file failed is over,
\* the delete loop has reached every other leftover file.
C6_DeleteFailureIsolation ==
    (pc = "wait" /\ "delete" \in failures) => todo = {}

\* C7: no exception leaves a cycle: the loop is never ended by one.
C7_CycleIsolation == pc # "crashed"

RegistryKeys == { full_filename(e.payload) : e \in registry }

\* The names of the peripherals of the document the scanner settled on.
FixedKeys == IF fixed = <<>> THEN {} ELSE Keys(parse_modbus_peripherals(fixed[1]).modbus)

\* C9: once the observed peripherals stay the same and nothing fails any
\* more, the registry eventually holds entries for exactly the observed
\* names, and keeps doing so.
C9_Convergence == (fixed # <<>>) ~> [](RegistryKeys = FixedKeys)

ExampleDoc == [kind |-> "ports", ports |-> Many(<<ModbusPort(One(Slave64)), HttpPort>>)]

\* The same slave on a port without portid and protocol.
BareDoc == [kind |-> "ports", ports |-> Many(<<BarePort, HttpPort>>)]

C11_CreatesBeforeDeletes ==
    /\ []((pc = "deletes" \/ deleteCalls # <<>>) => i > Len(peripherals))
    /\ [][Len(posts') > Len(posts) => (pc = "creates" /\ deleteCalls = <<>>)]_vars

\* A cycle is over in which two peripherals were posted, a create failed and
\* a delete call was made.
C11_Witness ==
    /\ pc = "wait"
    /\ "create" \in failures
    /\ Len(posts) >= 2
    /\ deleteCalls # <<>>

-----------------------------------------------------------------------------
(* The parser against the shapes of the document *)

RECURSIVE TableCount(_)
\* Number of slave tables under the modbus ports of a sequence of ports.
TableCount(ports) ==
    IF ports = <<>> THEN 0
    ELSE (IF Head(ports).service = <<"modbus">> THEN Len(Head(ports).script.items) ELSE 0)
         + TableCount(Tail(ports))

\* The elem nodes of the slave tables under the modbus ports of a document.
ElemsOf(d) ==
    UNION { { d.ports.items[n].script.items[k].elem :
                k \in 1..Len(d.ports.items[n].script.items) } :
            n \in { m \in 1..Len(d.ports.items) : d.ports.items[m].service = <<"modbus">> } }

\* The keys of the attribute elements of an elem node.
ElemKeys(e) == { e.items[n].key : n \in 1..Len(e.items) }

\* The parser is done with the document of this cycle, or was left by an
\* exception while parsing it.
Parsed == pc \notin {"scan", "parse"} /\ doc.kind = "ports"

\* Every modbus port of the document carries a script output.
Scripted(d) ==
    \A n \in 1..Len(d.ports.items) :
       d.ports.items[n].service = <<"modbus">> => d.ports.items[n].script # Absent

\* The parser returned one finding for each slave table under a modbus port.
OnePerTable == pc # "crashed" /\ Len(peripherals) = TableCount(doc.ports.items)

\* C12: for a document whose slaves all carry "Slave ID data" and recognized
\* attributes only, the parser returns exactly one finding per slave table
\* under a modbus port and none for the other ports, whether the port, the
\* table and the attribute element come as one object or as a list.
C12_OneFindingPerTable ==
    (/\ Parsed
     /\ Scripted(doc)
     /\ \A e \in ElemsOf(doc) :
           ElemKeys(e) \subseteq {"Slave ID data", "Device identification"}
           /\ "Slave ID data" \in ElemKeys(e))
        => OnePerTable

\* C13: an attribute element with an unrecognized key in a document of
\* lists does not fail the parser: the finding of every slave table is
\* still returned.
C13_UnrecognizedKeyNonFatal ==
    (/\ Parsed
     /\ Scripted(doc)
     /\ doc.ports.list
     /\ \A e \in ElemsOf(doc) : e.list /\ "Slave ID data" \in ElemKeys(e)
     /\ \E e \in ElemsOf(doc) : "error" \in ElemKeys(e))
        => OnePerTable

\* C14: a slave without "Slave ID data" in a document of lists still gets
\* its finding, without the classes field and without a null field.
C14_AbsentFieldsOmitted ==
    (/\ Parsed
     /\ Scripted(doc)
     /\ doc.ports.list
     /\ \A e \in ElemsOf(doc) :
           e.list /\ ElemKeys(e) \subseteq {"Slave ID data", "Device identification"}
     /\ \E e \in ElemsOf(doc) : "Slave ID data" \notin ElemKeys(e))
        => /\ OnePerTable
           /\ \E n \in 1..Len(peripherals) : "classes" \notin DOMAIN peripherals[n]

-----------------------------------------------------------------------------
(* The delete loop, call by call *)

\* The delete calls of this cycle that had one of the outcomes of O.
Answered(O) == { n \in 1..Len(answers) : answers[n].outcome \in O }

C16_RecordOutlivesFailedDelete ==
    /\ \A n \in 1..Len(answers) :
          answers[n].outcome \notin {"deleted", "not_found"}
             => /\ deleteCalls[n] \in DOMAIN files
                /\ files[deleteCalls[n]] = [ok |-> TRUE, id |-> answers[n].id]
    /\ \A name \in Visited \ { deleteCalls[n] : n \in 1..Len(deleteCalls) } :
          name \in DOMAIN files
    /\ InCycle =>
          \A name \in listed.names \ DOMAIN files :
             \E n \in Answered({"deleted", "not_found"}) : deleteCalls[n] = name

\* A cycle is over in which the record of one delete call was removed and
\* the delete call for another record failed with a registry error.
C16_Witness ==
    /\ pc = "wait"
    /\ Answered({"nuvla_error"}) # {}
    /\ listed.names \ DOMAIN files # {}

-----------------------------------------------------------------------------
(* Local records and registry entries *)

\* C17: every local record holds the resource id of a create call that the
\* registry answered with one; no create that failed leaves a record without.
C17_RecordsHoldCreatedId ==
    \A name \in DOMAIN files : files[name].ok /\ files[name].id \in 1..issued

\* C18: the registry never holds two entries for one identifier
\* modbus.{port}.{interface}.{slaveId}.
C18_NoDuplicateEntries ==
    \A e1 \in registry, e2 \in registry :
       full_filename(e1.payload) = full_filename(e2.payload) => e1.id = e2.id

\* C19: every file whose delete pass failed in the cycle before this one
\* and whose peripheral is still not observed is in the list the delete loop
\* of this cycle will go through.
C19_FailedDeletesRetried ==
    pc = "creates" => (pending \ ObservedKeys) \subseteq local_modbus_files

\* C20: the update calls of a cycle are exactly one for each delete call
\* that failed with an error that is neither a connection error nor a
\* registry error; the local record of such a call is kept whether the
\* update succeeded or failed, a successful update leaves the entry with
\* available false, and the loop goes on with the next file.
C20_FallbackUpdate ==
    LET other == Answered({"other_error_put_ok", "other_error_put_error"}) IN
    /\ Len(puts) = Cardinality(other)
    /\ \A k \in 1..Len(puts) : \E n \in other : deleteCalls[n] = puts[k]
    /\ \A n \in other :
          /\ Cardinality({ k \in 1..Len(puts) : puts[k] = deleteCalls[n] }) = 1
          /\ deleteCalls[n] \in DOMAIN files
          /\ files[deleteCalls[n]] = [ok |-> TRUE, id |-> answers[n].id]
    /\ \A n \in Answered({"other_error_put_ok"}) :
          /\ Live(answers[n].id) # {}
          /\ \A e \in Live(answers[n].id) : ~e.payload.available
    /\ (pc = "wait" /\ Len(answers) \in other) => todo = {}

\* A cycle is over in which the update after the first failed delete call
\* failed as well and the update after the second succeeded.
C20_Witness ==
    /\ pc = "wait"
    /\ Len(answers) = 2
    /\ answers[1].outcome = "other_error_put_error"
    /\ answers[2].outcome = "other_error_put_ok"
    /\ Len(puts) = 2

====
